---------------------------- MODULE Spec2Model ----------------------------
(***************************************************************************)
(* snippetbox: the request pipeline built by routes() in cmd/web/routes.go *)
(* and the helpers of cmd/web/main.go (render, serverError, clientError,   *)
(* notFound, isAuthenticated, the session manager configuration).          *)
(*                                                                         *)
(* One client talks to the server; requests are served one at a time.  A   *)
(* request walks down the handler chain that routes() composes for its     *)
(* route, one layer per step, then unwinds through the session save and    *)
(* the deferred recover of the outermost layer.                            *)
(*                                                                         *)
(* The middleware bodies (recoverPanic, logRequest, secureHeaders, noSurf, *)
(* authenticate, requireAuthentication) and the app.* handlers are not in  *)
(* the source tree; they are modelled from section 4 of the specification. *)
(* Time is counted in hours.  Environment steps (clock, expiry cleanup, a  *)
(* user row disappearing) happen between requests: a request takes seconds *)
(* (WriteTimeout is 10 s), the clock ticks in hours.                       *)
(***************************************************************************)
EXTENDS Integers, Sequences, FiniteSets, TLC

\* ------------------------------------------------------------------ bounds
MaxTime == 14
TickHours == 6
MaxUsers == 1
MaxSnippets == 1
MaxIdLen == 2
PageChunks == 2

\* ------------------------------------------------- configuration (main.go)
\* sessionManager.Lifetime = 12 * time.Hour
Lifetime == 12

\* The characters an id segment is built from: digits, signs, a letter.
IdChars == {"0", "1", "-", "+", "x"}

RECURSIVE SeqsUpTo(_)
SeqsUpTo(n) ==
  IF n = 0 THEN {<<>>}
  ELSE LET shorter == SeqsUpTo(n - 1)
       IN  shorter \cup {Append(s, c) : s \in {t \in shorter : Len(t) = n - 1}, c \in IdChars}

\* httprouter's :id matches one non-empty path segment.
IdStrings == SeqsUpTo(MaxIdLen) \ {<<>>}

\* ------------------------------------------------------------ strconv.Atoi
DigitVal(c) == CASE c = "0" -> 0 [] c = "1" -> 1 [] OTHER -> 10

RECURSIVE AtoiDigits(_, _)
AtoiDigits(s, n) ==
  IF s = <<>> THEN [err |-> FALSE, n |-> n]
  ELSE IF DigitVal(Head(s)) > 9 THEN [err |-> TRUE, n |-> 0]
  ELSE AtoiDigits(Tail(s), n * 10 + DigitVal(Head(s)))

\* A parser that stops at the first character that is no digit and keeps what
\* it has read so far, as C's atoi and fmt.Sscanf("%d") do.
RECURSIVE LenientDigits(_, _, _)
LenientDigits(s, n, seen) ==
  IF s = <<>> \/ DigitVal(Head(s)) > 9
    THEN [err |-> ~seen, n |-> n]
    ELSE LenientDigits(Tail(s), n * 10 + DigitVal(Head(s)), TRUE)

AtoiLenient(s) ==
  IF s = <<>> THEN [err |-> TRUE, n |-> 0]
  ELSE LET r == LenientDigits(IF Head(s) \in {"-", "+"} THEN Tail(s) ELSE s, 0, FALSE)
       IN  IF r.err THEN [err |-> TRUE, n |-> 0]
           ELSE [err |-> FALSE, n |-> IF Head(s) = "-" THEN 0 - r.n ELSE r.n]

\* Optional sign, then one or more decimal digits; anything else is an error.
\* (The ids drawn here are far below the int range, where Atoi also errors.)
Atoi(s) ==
  IF s = <<>> THEN [err |-> TRUE, n |-> 0]
  ELSE LET body == IF Head(s) \in {"-", "+"} THEN Tail(s) ELSE s
       IN  IF body = <<>> THEN [err |-> TRUE, n |-> 0]
           ELSE LET r == AtoiDigits(body, 0)
                IN  IF r.err THEN r
                    ELSE [err |-> FALSE, n |-> IF Head(s) = "-" THEN 0 - r.n ELSE r.n]

\* snippetView's guard: err != nil || id < 1 sends 404.
snippetViewRejects(s) == Atoi(s).err \/ Atoi(s).n < 1

\* ------------------------------------------------------ the response writer
\* status 0: the header has not been written yet.
EmptyW == [status |-> 0, header |-> {}, body |-> <<>>, location |-> ""]

Text(t) == [kind |-> "text", name |-> t, part |-> 0]
PagePart(page, i) == [kind |-> "page", name |-> page, part |-> i]
FileBody(what) == [kind |-> what, name |-> "", part |-> 0]

StatusText(code) ==
  CASE code = 400 -> "Bad Request"
    [] code = 404 -> "Not Found"
    [] code = 405 -> "Method Not Allowed"
    [] code = 500 -> "Internal Server Error"
    [] OTHER -> ""

SetHeader(w, names) == [w EXCEPT !.header = @ \cup names]

\* Only the first WriteHeader counts; a later one is superfluous.
WriteHeader(w, code) == IF w.status = 0 THEN [w EXCEPT !.status = code] ELSE w

\* A Write before any WriteHeader sends 200 first.
Write(w, chunk) == [WriteHeader(w, 200) EXCEPT !.body = Append(@, chunk)]

RECURSIVE WriteAll(_, _)
WriteAll(w, chunks) ==
  IF chunks = <<>> THEN w ELSE WriteAll(Write(w, Head(chunks)), Tail(chunks))

httpError(w, text, code) ==
  Write(WriteHeader(SetHeader(w, {"Content-Type", "X-Content-Type-Options"}), code), Text(text))

httpRedirect(w, url, code) ==
  WriteHeader([SetHeader(w, {"Location"}) EXCEPT !.location = url], code)

\* A handler's output: the response writer and the server's error log.
Out(w, log) == [w |-> w, log |-> log]

\* serverError: the detail goes to errorLog, the client gets the generic text.
serverError(o, err) ==
  Out(httpError(o.w, StatusText(500), 500), Append(o.log, err))

clientError(o, status) == Out(httpError(o.w, StatusText(status), status), o.log)

notFound(o) == clientError(o, 404)

\* ------------------------------------------------------------------ render
\* The pages the template cache is built from at startup.
Pages == {"home.tmpl", "view.tmpl", "create.tmpl", "signup.tmpl", "login.tmpl"}
templateCache == Pages

\* data.bad = 0: the template executes; data.bad = k > 0: execution fails
\* while producing part k, after parts 1..k-1 went to the destination.
ExecuteTemplate(page, data) ==
  IF data.bad = 0
    THEN [out |-> [i \in 1..PageChunks |-> PagePart(page, i)], err |-> FALSE]
    ELSE [out |-> [i \in 1..(data.bad - 1) |-> PagePart(page, i)], err |-> TRUE]

\* The earlier version of render, executing straight into the ResponseWriter.
renderUnbuffered(o, status, page, data) ==
  IF page \notin templateCache
    THEN serverError(o, "no template")
    ELSE LET ex == ExecuteTemplate(page, data)
             w1 == WriteAll(WriteHeader(o.w, status), ex.out)
         IN  IF ex.err THEN serverError(Out(w1, o.log), "template error")
             ELSE Out(w1, o.log)

render(o, status, page, data) ==
  IF page \notin templateCache
    THEN serverError(o, "no template")
    ELSE LET ex == ExecuteTemplate(page, data)
         IN  IF ex.err THEN serverError(o, "template error")
             ELSE Out(WriteAll(WriteHeader(o.w, status), ex.out), o.log)

\* --------------------------------------------------------- isAuthenticated
\* The value stored in the request context under isAuthenticatedContextKey.
NoValue == [type |-> "nil", b |-> FALSE]
BoolValue(b) == [type |-> "bool", b |-> b]

\* isAuthenticated answering true when the context holds no boolean.
isAuthenticatedFailOpen(v) == IF v.type # "bool" THEN TRUE ELSE v.b

isAuthenticated(v) == IF v.type # "bool" THEN FALSE ELSE v.b


\* ------------------------------------------------------- routes (routes.go)
\* The standard chain with recoverPanic not outermost, and with secureHeaders
\* left out.
standardRecoverInside == <<"logRequest", "recoverPanic", "secureHeaders">>
standardWithoutHeaders == <<"recoverPanic", "logRequest">>

\* standard := alice.New(app.recoverPanic, app.logRequest, secureHeaders)
standard == <<"recoverPanic", "logRequest", "secureHeaders">>

\* The dynamic chain with noSurf after authenticate, and with noSurf left out.
dynamicCsrfLast == <<"LoadAndSave", "authenticate", "noSurf">>
dynamicWithoutCsrf == <<"LoadAndSave", "authenticate">>

\* dynamic := alice.New(app.sessionManager.LoadAndSave, noSurf, app.authenticate)
dynamic == <<"LoadAndSave", "noSurf", "authenticate">>

\* The protected chain without the Append.
protectedNotAppended == dynamic

\* protected := dynamic.Append(app.requireAuthentication)
protected == dynamic \o <<"requireAuthentication">>

DynamicHandlers ==
  {"home", "snippetView", "userSignup", "userSignupPost", "userLoginPost", "userLogin"}
ProtectedHandlers == {"snippetCreatePost", "snippetCreate", "userLogoutPost"}
\* fileServer: GET /static/*filepath; notFound: router.NotFound; methodNotAllowed:
\* httprouter's answer to a registered path asked with another method.
PlainHandlers == {"fileServer", "notFound", "methodNotAllowed"}
Handlers == DynamicHandlers \cup ProtectedHandlers \cup PlainHandlers

Method(h) ==
  IF h \in {"userSignupPost", "userLoginPost", "snippetCreatePost", "userLogoutPost"}
    THEN "POST" ELSE "GET"

\* The chain a request for handler h walks: standard.Then(router), then the
\* chain the route was registered with, then the handler.
routes(h) ==
  standard \o <<"router">>
    \o (IF h \in ProtectedHandlers THEN protected
        ELSE IF h \in DynamicHandlers THEN dynamic ELSE <<>>)
    \o <<h>>

\* ------------------------------------------------------------------- state
VARIABLES
  now,        \* the clock, in hours
  sess,       \* the row of the session store behind the client's cookie
  users,      \* ids of the rows of the users table
  snippets,   \* number of rows of the snippets table (ids 1..snippets)
  lastSeen,   \* when a request that carried the stored session last completed
  authPhase,  \* "anon", "loggedIn" after a login, "loggedOut" after a logout
  phase,      \* "idle", "down", "save", "recover", "done"
  idx,        \* position in routes(req.route) of the next layer to run
  req,        \* the request being served
  trace,      \* the layers entered so far, in order
  w,          \* the response writer
  errorLog,   \* what this request wrote to errorLog
  ctxv,       \* the request context's value under isAuthenticatedContextKey
  sd,         \* the session data loaded into the request context
  flt,        \* panics and store errors of this request
  rcall,      \* the call of render this request made, if any
  pre         \* the stores as they were when the request arrived

vars == <<now, sess, users, snippets, lastSeen, authPhase, phase, idx, req,
          trace, w, errorLog, ctxv, sd, flt, rcall, pre>>

NoSession ==
  [exists |-> FALSE, userID |-> 0, flash |-> FALSE, redirect |-> FALSE,
   deadline |-> 0, created |-> 0]
NoData ==
  [loaded |-> FALSE, stored |-> FALSE, status |-> "Unmodified", userID |-> 0,
   flash |-> FALSE, redirect |-> FALSE, deadline |-> 0, created |-> 0]
NoRequest ==
  [route |-> "none", id |-> <<>>, csrf |-> TRUE, file |-> "none", slash |-> FALSE,
   sessAuth |-> FALSE, afterLogout |-> FALSE]
NoFault ==
  [panic |-> FALSE, panicAt |-> 0, store |-> FALSE, recovered |-> 0,
   recoveredAt |-> 0, escaped |-> FALSE]
NoRender == [used |-> FALSE, page |-> "", status |-> 0, bad |-> 0, isAuth |-> FALSE]
NoSnapshot == [snippets |-> 0, users |-> {}, sess |-> NoSession]

\* mysqlstore finds a row only while its expiry is in the future.
Live == sess.exists /\ now < sess.deadline

Init ==
  /\ now = 0
  /\ sess = NoSession
  /\ users = {}
  /\ snippets = 0
  /\ lastSeen = 0
  /\ authPhase = "anon"
  /\ phase = "idle"
  /\ idx = 0
  /\ req = NoRequest
  /\ trace = <<>>
  /\ w = EmptyW
  /\ errorLog = <<>>
  /\ ctxv = NoValue
  /\ sd = NoData
  /\ flt = NoFault
  /\ rcall = NoRender
  /\ pre = NoSnapshot

\* ------------------------------------------------------------- environment
Tick ==
  /\ phase = "idle"
  /\ now + TickHours <= MaxTime
  /\ now' = now + TickHours
  /\ UNCHANGED <<sess, users, snippets, lastSeen, authPhase, phase, idx, req,
                 trace, w, errorLog, ctxv, sd, flt, rcall, pre>>

\* mysqlstore.New starts a background sweep that deletes expired rows.
Cleanup ==
  /\ phase = "idle"
  /\ sess.exists /\ ~(now < sess.deadline)
  /\ sess' = NoSession
  /\ lastSeen' = 0
  /\ UNCHANGED <<now, users, snippets, authPhase, phase, idx, req,
                 trace, w, errorLog, ctxv, sd, flt, rcall, pre>>

\* A user row is removed from the table behind the application's back.
UserRemoved ==
  /\ phase = "idle"
  /\ \E u \in users : users' = users \ {u}
  /\ UNCHANGED <<now, sess, snippets, lastSeen, authPhase, phase, idx, req,
                 trace, w, errorLog, ctxv, sd, flt, rcall, pre>>

\* ---------------------------------------------------------------- requests
FileKinds == {"file", "dir", "dirWithIndex", "absent"}

NewRequest ==
  /\ phase = "idle"
  /\ \E h \in Handlers :
       \E tok \in (IF Method(h) = "POST" THEN BOOLEAN ELSE {TRUE}),
          fk \in (IF h = "fileServer" THEN FileKinds ELSE {"none"}),
          sl \in (IF h = "fileServer" THEN BOOLEAN ELSE {FALSE}) :
       req' = [route |-> h, id |-> <<>>, csrf |-> tok, file |-> fk, slash |-> sl,
               sessAuth |-> Live /\ sess.userID \in users,
               afterLogout |-> authPhase = "loggedOut"]
  /\ phase' = "down"
  /\ idx' = 1
  /\ trace' = <<>>
  /\ w' = EmptyW
  /\ errorLog' = <<>>
  /\ ctxv' = NoValue
  /\ sd' = NoData
  /\ flt' = NoFault
  /\ rcall' = NoRender
  /\ pre' = [snippets |-> snippets, users |-> users, sess |-> sess]
  /\ UNCHANGED <<now, sess, users, snippets, lastSeen, authPhase>>

At(layer) == phase = "down" /\ routes(req.route)[idx] = layer

Enter(layer) == trace' = Append(trace, layer)

Forward == phase' = "down" /\ idx' = idx + 1

Ran(layer) == \E i \in 1..Len(trace) : trace[i] = layer

\* The layer has answered and the call returns up the chain: through the
\* second half of LoadAndSave when the session middleware is on the stack,
\* then through the deferred function of recoverPanic.
Return == phase' = (IF Ran("LoadAndSave") THEN "save" ELSE "recover") /\ idx' = idx

\* Any layer but the recovery middleware itself may panic before it has
\* written anything; the panic unwinds past the session middleware, which
\* defers nothing, to whatever recover is on the stack.
LayerPanics ==
  /\ phase = "down"
  /\ routes(req.route)[idx] # "recoverPanic"
  /\ Enter(routes(req.route)[idx])
  /\ flt' = [flt EXCEPT !.panic = TRUE, !.panicAt = idx]
  /\ phase' = "recover"
  /\ UNCHANGED <<now, sess, users, snippets, lastSeen, authPhase, idx, req,
                 w, errorLog, ctxv, sd, rcall, pre>>


\* ------------------------------------------------------ standard middleware
\* recoverPanic defers its recover and calls next.
recoverPanic ==
  /\ At("recoverPanic")
  /\ Enter("recoverPanic")
  /\ Forward
  /\ UNCHANGED <<now, sess, users, snippets, lastSeen, authPhase, req,
                 w, errorLog, ctxv, sd, flt, rcall, pre>>

\* logRequest writes method, URL and protocol to infoLog and calls next.
logRequest ==
  /\ At("logRequest")
  /\ Enter("logRequest")
  /\ Forward
  /\ UNCHANGED <<now, sess, users, snippets, lastSeen, authPhase, req,
                 w, errorLog, ctxv, sd, flt, rcall, pre>>

SecurityHeaders ==
  {"Content-Security-Policy", "Referrer-Policy", "X-Content-Type-Options",
   "X-Frame-Options", "X-XSS-Protection"}

secureHeaders ==
  /\ At("secureHeaders")
  /\ Enter("secureHeaders")
  /\ w' = SetHeader(w, SecurityHeaders)
  /\ Forward
  /\ UNCHANGED <<now, sess, users, snippets, lastSeen, authPhase, req,
                 errorLog, ctxv, sd, flt, rcall, pre>>

\* httprouter looks the request up and calls what was registered for it.
router ==
  /\ At("router")
  /\ Enter("router")
  /\ Forward
  /\ UNCHANGED <<now, sess, users, snippets, lastSeen, authPhase, req,
                 w, errorLog, ctxv, sd, flt, rcall, pre>>

\* ------------------------------------------------------- session middleware
\* A session manager that pushes the deadline out at every load.
LoadedDeadlineRefreshed(stored) == now + Lifetime

\* scs.New() with Lifetime set and IdleTimeout left unset: the deadline is
\* fixed when the session data is created and a later load keeps it.
LoadedDeadline(stored) == stored.deadline

\* stored: the data came from a row of the store (it has a token).
NewData ==
  [loaded |-> TRUE, stored |-> FALSE, status |-> "Unmodified", userID |-> 0,
   flash |-> FALSE, redirect |-> FALSE, deadline |-> now + Lifetime, created |-> now]

LoadedData ==
  [loaded |-> TRUE, stored |-> TRUE, status |-> "Unmodified", userID |-> sess.userID,
   flash |-> sess.flash, redirect |-> sess.redirect,
   deadline |-> LoadedDeadline(sess), created |-> sess.created]

\* LoadAndSave, on the way down: load the session the cookie names, or start
\* an empty one; a store error is answered with 500 by the manager's ErrorFunc.
LoadAndSave ==
  /\ At("LoadAndSave")
  /\ Enter("LoadAndSave")
  /\ \/ /\ sd' = IF Live THEN LoadedData ELSE NewData
        /\ Forward
        /\ UNCHANGED <<w, flt>>
     \/ /\ w' = httpError(w, StatusText(500), 500)
        /\ flt' = [flt EXCEPT !.store = TRUE]
        /\ Return
        /\ UNCHANGED sd
  /\ UNCHANGED <<now, sess, users, snippets, lastSeen, authPhase, req,
                 errorLog, ctxv, rcall, pre>>

Stored(d) ==
  [exists |-> TRUE, userID |-> d.userID, flash |-> d.flash, redirect |-> d.redirect,
   deadline |-> d.deadline, created |-> d.created]

\* LoadAndSave, on the way up: modified session data is committed to the store
\* and the cookie is set; a failed commit is answered with 500.
LoadAndSaveCommit ==
  /\ phase = "save"
  /\ sd.loaded /\ sd.status = "Modified"
  /\ \/ /\ sess' = Stored(sd)
        /\ lastSeen' = now
        /\ UNCHANGED <<w, flt>>
     \/ /\ w' = [httpError(EmptyW, StatusText(500), 500) EXCEPT !.header = @ \cup w.header]
        /\ flt' = [flt EXCEPT !.store = TRUE]
        /\ UNCHANGED <<sess, lastSeen>>
  /\ phase' = "recover"
  /\ UNCHANGED <<now, users, snippets, authPhase, idx, req, trace,
                 errorLog, ctxv, sd, rcall, pre>>

\* The session data was not modified: nothing is committed, no cookie is set.
LoadAndSaveSkip ==
  /\ phase = "save"
  /\ ~(sd.loaded /\ sd.status = "Modified")
  /\ lastSeen' = IF sd.loaded /\ sd.stored THEN now ELSE lastSeen
  /\ phase' = "recover"
  /\ UNCHANGED <<now, sess, users, snippets, authPhase, idx, req, trace,
                 w, errorLog, ctxv, sd, flt, rcall, pre>>

\* ------------------------------------------------------------ recoverPanic
\* The deferred function of recoverPanic: a panic from below is recovered,
\* Connection: close is set and serverError answers 500.  A panic with no
\* recover above it leaves the handler chain.  Of several recovers on the
\* stack the innermost one catches the panic.
recoverPanicDeferred ==
  /\ phase = "recover"
  /\ phase' = "done"
  /\ IF ~flt.panic
       THEN UNCHANGED <<w, errorLog, flt>>
       ELSE LET at == {i \in 1..(Len(trace) - 1) : trace[i] = "recoverPanic"}
            IN  IF at = {}
                  THEN /\ flt' = [flt EXCEPT !.escaped = TRUE]
                       /\ UNCHANGED <<w, errorLog>>
                  ELSE LET o == serverError(Out(SetHeader(w, {"Connection: close"}), errorLog),
                                            "panic")
                       IN  /\ w' = o.w
                           /\ errorLog' = o.log
                           /\ flt' = [flt EXCEPT !.recovered = @ + 1,
                                                 !.recoveredAt = CHOOSE i \in at : \A j \in at : i >= j]
  /\ UNCHANGED <<now, sess, users, snippets, lastSeen, authPhase, idx, req, trace,
                 ctxv, sd, rcall, pre>>

\* The response has gone out; the server waits for the next request.
Respond ==
  /\ phase = "done"
  /\ phase' = "idle"
  /\ idx' = 0
  /\ req' = NoRequest
  /\ trace' = <<>>
  /\ w' = EmptyW
  /\ errorLog' = <<>>
  /\ ctxv' = NoValue
  /\ sd' = NoData
  /\ flt' = NoFault
  /\ rcall' = NoRender
  /\ pre' = NoSnapshot
  /\ UNCHANGED <<now, sess, users, snippets, lastSeen, authPhase>>


\* ------------------------------------------------------- dynamic middleware
\* noSurf: a state-changing method must carry the CSRF token; nosurf's
\* failure handler answers 400 and next is not called.
noSurf ==
  /\ At("noSurf")
  /\ Enter("noSurf")
  /\ IF Method(req.route) = "GET" \/ req.csrf
       THEN Forward /\ UNCHANGED w
       ELSE w' = httpError(w, "", 400) /\ Return
  /\ UNCHANGED <<now, sess, users, snippets, lastSeen, authPhase, req,
                 errorLog, ctxv, sd, flt, rcall, pre>>

\* authenticate: a session naming a user that still exists marks the request
\* context; a stale user id is removed from the session.
authenticate ==
  /\ At("authenticate")
  /\ sd.loaded
  /\ Enter("authenticate")
  /\ IF sd.userID = 0
       THEN UNCHANGED <<ctxv, sd>>
       ELSE IF sd.userID \in users
         THEN ctxv' = BoolValue(TRUE) /\ UNCHANGED sd
         ELSE sd' = [sd EXCEPT !.userID = 0, !.status = "Modified"] /\ UNCHANGED ctxv
  /\ Forward
  /\ UNCHANGED <<now, sess, users, snippets, lastSeen, authPhase, req,
                 w, errorLog, flt, rcall, pre>>

\* requireAuthentication: an anonymous request is sent to the login page and
\* the path it asked for is kept in the session; next is not called.
requireAuthentication ==
  /\ At("requireAuthentication")
  /\ sd.loaded
  /\ Enter("requireAuthentication")
  /\ IF ~isAuthenticated(ctxv)
       THEN /\ sd' = [sd EXCEPT !.redirect = TRUE, !.status = "Modified"]
            /\ w' = httpRedirect(w, "/user/login", 303)
            /\ Return
       ELSE /\ w' = SetHeader(w, {"Cache-Control"})
            /\ Forward
            /\ UNCHANGED sd
  /\ UNCHANGED <<now, sess, users, snippets, lastSeen, authPhase, req,
                 errorLog, ctxv, flt, rcall, pre>>

\* ---------------------------------------------------------------- handlers
PopFlash(d) == IF d.flash THEN [d EXCEPT !.flash = FALSE, !.status = "Modified"] ELSE d

PutFlash(d) == [d EXCEPT !.flash = TRUE, !.status = "Modified"]

\* RenewToken gives the session data a new token and a new deadline; the row
\* under the old token is deleted from the store at once.
RenewToken(d) ==
  [d EXCEPT !.deadline = now + Lifetime, !.created = now, !.status = "Modified",
            !.stored = FALSE]

\* newTemplateData leaving IsAuthenticated at the zero value of its type.
newTemplateDataNoFlag(d, bad) ==
  [Flash |-> d.flash, IsAuthenticated |-> FALSE, bad |-> bad]

newTemplateData(d, bad) ==
  [Flash |-> d.flash, IsAuthenticated |-> isAuthenticated(ctxv), bad |-> bad]

Answer(o, d, rc, f) ==
  /\ w' = o.w
  /\ errorLog' = o.log
  /\ sd' = d
  /\ rcall' = rc
  /\ flt' = f
  /\ Return

\* newTemplateData (which pops the flash message), then render.
RenderPage(status, page, d) ==
  \E bad \in 0..PageChunks :
    LET data == newTemplateData(d, bad)
    IN  Answer(render(Out(w, errorLog), status, page, data), PopFlash(d),
               [used |-> TRUE, page |-> page, status |-> status, bad |-> bad,
                isAuth |-> data.IsAuthenticated],
               flt)

StoreError ==
  Answer(serverError(Out(w, errorLog), "store error"), sd, rcall,
         [flt EXCEPT !.store = TRUE])

Redirect(url, d) == Answer(Out(httpRedirect(w, url, 303), errorLog), d, rcall, flt)

home ==
  /\ At("home")
  /\ sd.loaded
  /\ Enter("home")
  /\ \/ StoreError
     \/ RenderPage(200, "home.tmpl", sd)
  /\ UNCHANGED <<now, sess, users, snippets, lastSeen, authPhase, req, ctxv, pre>>

\* The handler reads the :id segment of the path (any non-empty segment the
\* client chose; req.id records it from here on), rejects what snippetView's
\* guard rejects, looks the snippet up and renders it.
snippetView ==
  /\ At("snippetView")
  /\ sd.loaded
  /\ Enter("snippetView")
  /\ \E id \in IdStrings :
       /\ req' = [req EXCEPT !.id = id]
       /\ IF snippetViewRejects(id)
            THEN Answer(notFound(Out(w, errorLog)), sd, rcall, flt)
            ELSE \/ StoreError
                 \/ IF Atoi(id).n \in 1..snippets
                      THEN RenderPage(200, "view.tmpl", sd)
                      ELSE Answer(notFound(Out(w, errorLog)), sd, rcall, flt)
  /\ UNCHANGED <<now, sess, users, snippets, lastSeen, authPhase, ctxv, pre>>

snippetCreate ==
  /\ At("snippetCreate")
  /\ sd.loaded
  /\ Enter("snippetCreate")
  /\ RenderPage(200, "create.tmpl", sd)
  /\ UNCHANGED <<now, sess, users, snippets, lastSeen, authPhase, req, ctxv, pre>>

snippetCreatePost ==
  /\ At("snippetCreatePost")
  /\ sd.loaded
  /\ Enter("snippetCreatePost")
  /\ \/ RenderPage(422, "create.tmpl", sd) /\ UNCHANGED snippets
     \/ StoreError /\ UNCHANGED snippets
     \/ /\ snippets < MaxSnippets
        /\ snippets' = snippets + 1
        /\ Redirect("/snippet/view/:id", PutFlash(sd))
  /\ UNCHANGED <<now, sess, users, lastSeen, authPhase, req, ctxv, pre>>

userSignup ==
  /\ At("userSignup")
  /\ sd.loaded
  /\ Enter("userSignup")
  /\ RenderPage(200, "signup.tmpl", sd)
  /\ UNCHANGED <<now, sess, users, snippets, lastSeen, authPhase, req, ctxv, pre>>

\* The form is invalid, or its email is taken, or the user is inserted.
userSignupPost ==
  /\ At("userSignupPost")
  /\ sd.loaded
  /\ Enter("userSignupPost")
  /\ \/ RenderPage(422, "signup.tmpl", sd) /\ UNCHANGED users
     \/ StoreError /\ UNCHANGED users
     \/ \E u \in 1..MaxUsers :
          IF u \in users
            THEN RenderPage(422, "signup.tmpl", sd) /\ UNCHANGED users
            ELSE users' = users \cup {u} /\ Redirect("/user/login", PutFlash(sd))
  /\ UNCHANGED <<now, sess, snippets, lastSeen, authPhase, req, ctxv, pre>>

userLogin ==
  /\ At("userLogin")
  /\ sd.loaded
  /\ Enter("userLogin")
  /\ RenderPage(200, "login.tmpl", sd)
  /\ UNCHANGED <<now, sess, users, snippets, lastSeen, authPhase, req, ctxv, pre>>

\* Bad input or wrong credentials show the form again; a match renews the
\* token, stores the user id in the session and redirects.
userLoginPost ==
  /\ At("userLoginPost")
  /\ sd.loaded
  /\ Enter("userLoginPost")
  /\ \/ RenderPage(422, "login.tmpl", sd) /\ UNCHANGED <<sess, lastSeen, authPhase>>
     \/ StoreError /\ UNCHANGED <<sess, lastSeen, authPhase>>
     \/ \E u \in users :
          /\ sess' = NoSession
          /\ lastSeen' = 0
          /\ authPhase' = "loggedIn"
          /\ Redirect(IF sd.redirect THEN "stored path" ELSE "/snippet/create",
                      [RenewToken(sd) EXCEPT !.userID = u, !.redirect = FALSE])
  /\ UNCHANGED <<now, users, snippets, req, ctxv, pre>>

\* Renew the token, remove the user id from the session, flash, redirect.
userLogoutPost ==
  /\ At("userLogoutPost")
  /\ sd.loaded
  /\ Enter("userLogoutPost")
  /\ sess' = NoSession
  /\ lastSeen' = 0
  /\ authPhase' = "loggedOut"
  /\ Redirect("/", PutFlash([RenewToken(sd) EXCEPT !.userID = 0]))
  /\ UNCHANGED <<now, users, snippets, req, ctxv, pre>>

\* http.FileServer(http.FS(ui.Files)): a missing name is 404, a name and its
\* trailing slash are made canonical by a redirect, a directory shows its
\* index.html or else the list of its entries.
serveFile(rw, kind, slash) ==
  CASE kind = "absent" -> httpError(rw, "404 page not found", 404)
    [] kind = "file" /\ slash -> httpRedirect(rw, "../name", 301)
    [] kind = "file" /\ ~slash -> Write(SetHeader(rw, {"Content-Type"}), FileBody("file"))
    [] kind \in {"dir", "dirWithIndex"} /\ ~slash -> httpRedirect(rw, "name/", 301)
    [] kind = "dirWithIndex" /\ slash -> Write(SetHeader(rw, {"Content-Type"}), FileBody("file"))
    [] kind = "dir" /\ slash -> Write(SetHeader(rw, {"Content-Type"}), FileBody("listing"))

fileServer ==
  /\ At("fileServer")
  /\ Enter("fileServer")
  /\ Answer(Out(serveFile(w, req.file, req.slash), errorLog), sd, rcall, flt)
  /\ UNCHANGED <<now, sess, users, snippets, lastSeen, authPhase, req, ctxv, pre>>

\* router.NotFound: app.notFound(w).
notFoundHandler ==
  /\ At("notFound")
  /\ Enter("notFound")
  /\ Answer(notFound(Out(w, errorLog)), sd, rcall, flt)
  /\ UNCHANGED <<now, sess, users, snippets, lastSeen, authPhase, req, ctxv, pre>>

\* httprouter: Allow header and 405.
methodNotAllowed ==
  /\ At("methodNotAllowed")
  /\ Enter("methodNotAllowed")
  /\ Answer(Out(httpError(SetHeader(w, {"Allow"}), StatusText(405), 405), errorLog),
            sd, rcall, flt)
  /\ UNCHANGED <<now, sess, users, snippets, lastSeen, authPhase, req, ctxv, pre>>

\* ------------------------------------------------------------ specification
Next ==
  \/ Tick \/ Cleanup \/ UserRemoved
  \/ NewRequest \/ LayerPanics
  \/ recoverPanic \/ logRequest \/ secureHeaders \/ router
  \/ LoadAndSave \/ noSurf \/ authenticate \/ requireAuthentication
  \/ home \/ snippetView \/ snippetCreate \/ snippetCreatePost
  \/ userSignup \/ userSignupPost \/ userLogin \/ userLoginPost \/ userLogoutPost
  \/ fileServer \/ notFoundHandler \/ methodNotAllowed
  \/ LoadAndSaveCommit \/ LoadAndSaveSkip \/ recoverPanicDeferred \/ Respond

Spec == Init /\ [][Next]_vars


\* ---------------------------------------------------- vocabulary of claims
Done == phase = "done"
InFlight == phase # "idle"
HandlerRan == Ran(req.route)
\* A panic or a store error happened while this request was served.
Faulted == flt.panic \/ flt.store
RedirectedToLogin == w.status = 303 /\ w.location = "/user/login"
GenericError == w.status = 500 /\ w.body = <<Text("Internal Server Error")>>

\* ----------------------------------------------------------------------- C1
\* C1 as stated: on a protected route, a request whose session is not
\* authenticated (and that no panic or store error cuts short) is answered
\* with a redirect to the login page and its handler is never invoked.
C1_EveryAnonymousRequestRedirected ==
  (Done /\ req.route \in {"snippetCreate", "snippetCreatePost", "userLogoutPost"}
        /\ ~req.sessAuth /\ ~Faulted)
    => (RedirectedToLogin /\ ~HandlerRan)

\* C1 amended: on a protected route, a request whose session is not
\* authenticated never reaches its handler; it is answered with a redirect to
\* the login page when it is a GET or carries the matching CSRF token, and
\* with 400 when it is a POST whose CSRF token does not match (CSRF validation
\* runs before the authentication requirement).
C1_AnonymousNeverReachesHandler ==
  (InFlight /\ req.route \in {"snippetCreate", "snippetCreatePost", "userLogoutPost"}
            /\ ~req.sessAuth)
    => /\ ~HandlerRan
       /\ (Done /\ ~Faulted) =>
            IF Method(req.route) = "GET" \/ req.csrf
              THEN RedirectedToLogin
              ELSE w.status = 400

C1_Witness ==
  /\ Done /\ req.route = "userLogoutPost" /\ ~req.sessAuth /\ req.csrf /\ ~Faulted
  /\ RedirectedToLogin /\ Ran("requireAuthentication")

\* ----------------------------------------------------------------------- C2
\* C2: once a login has been followed by a logout, every later request on the
\* session sees the authenticated flag as false, and the stored session names
\* no user, until another login.
C2_LoggedOutStaysAnonymous ==
  /\ (InFlight /\ req.afterLogout) => (~isAuthenticated(ctxv) /\ ~rcall.isAuth)
  /\ authPhase = "loggedOut" => sess.userID = 0

C2_Witness ==
  /\ Done /\ req.afterLogout /\ req.route = "home" /\ Ran("authenticate")
  /\ rcall.used /\ w.status = 200 /\ sess.exists

\* ----------------------------------------------------------------------- C3
Middlewares ==
  {"recoverPanic", "logRequest", "secureHeaders", "LoadAndSave", "noSurf",
   "authenticate", "requireAuthentication"}
IsMiddleware(x) == x \in Middlewares
MiddlewaresRun == SelectSeq(trace, IsMiddleware)
IsPrefix(s, t) == Len(s) <= Len(t) /\ \A i \in 1..Len(s) : s[i] = t[i]

FixedOrder ==
  <<"recoverPanic", "logRequest", "secureHeaders", "LoadAndSave", "noSurf",
    "authenticate">>
FixedOrderFor(h) ==
  IF h \in {"snippetCreate", "snippetCreatePost", "userLogoutPost"}
    THEN FixedOrder \o <<"requireAuthentication">> ELSE FixedOrder

\* C3 as stated: every request runs the middlewares in the fixed order, and
\* the route handler runs only after all of them have forwarded the request.
C3_EveryRequestThroughWholeChain ==
  InFlight =>
    /\ IsPrefix(MiddlewaresRun, FixedOrderFor(req.route))
    /\ HandlerRan => MiddlewaresRun = FixedOrderFor(req.route)

\* C3 amended: the middlewares a request runs are always an initial part of
\* the fixed order.  A handler of a dynamic route runs only after all six
\* (seven on a protected route) have forwarded the request; the static file
\* server, the not-found handler and the router's 405 answer run after panic
\* recovery, request logging and security headers only: the session, CSRF and
\* identity middlewares wrap the dynamic routes, not the router.
C3_OrderAndRouteChains ==
  InFlight =>
    /\ IsPrefix(MiddlewaresRun, FixedOrderFor(req.route))
    /\ HandlerRan =>
         MiddlewaresRun =
           IF req.route \in {"fileServer", "notFound", "methodNotAllowed"}
             THEN <<"recoverPanic", "logRequest", "secureHeaders">>
             ELSE FixedOrderFor(req.route)

C3_Witness ==
  /\ Done /\ req.route = "snippetCreatePost" /\ HandlerRan /\ ~Faulted
  /\ Len(MiddlewaresRun) = 7

\* ----------------------------------------------------------------------- C4
\* C4: a panic raised in any layer below the recovery middleware is recovered
\* exactly once, by the outermost layer; the client gets the generic 500 with
\* Connection: close, and the panic does not leave the handler chain.
C4_PanicRecoveredOnceOutermost ==
  (Done /\ flt.panic) =>
    /\ flt.recovered = 1
    /\ flt.recoveredAt = 1
    /\ ~flt.escaped
    /\ GenericError
    /\ "Connection: close" \in w.header

C4_Witness ==
  /\ Done /\ flt.panic /\ req.route = "fileServer"
  /\ trace[Len(trace)] = "fileServer" /\ GenericError

\* ----------------------------------------------------------------------- C5
\* C5: a state-changing request whose CSRF token does not match is answered
\* with 400 (unless a panic or a session-store error upstream answered 500
\* first); identity propagation, the authentication requirement and the
\* handler never run, and neither the stores nor the session change.
C5_CsrfMismatchShortCircuits ==
  (InFlight /\ Method(req.route) = "POST" /\ ~req.csrf) =>
    /\ ~Ran("authenticate") /\ ~Ran("requireAuthentication") /\ ~HandlerRan
    /\ snippets = pre.snippets /\ users = pre.users /\ sess = pre.sess
    /\ sd.status = "Unmodified"
    /\ (Done /\ ~Faulted) => w.status = 400

C5_Witness ==
  /\ Done /\ req.route = "snippetCreatePost" /\ ~req.csrf /\ req.sessAuth
  /\ w.status = 400 /\ Ran("noSurf")

\* ----------------------------------------------------------------------- C6
RECURSIVE Pow10(_)
Pow10(k) == IF k = 0 THEN 1 ELSE 10 * Pow10(k - 1)
RECURSIVE PositionalValue(_)
PositionalValue(t) ==
  IF t = <<>> THEN 0
  ELSE DigitVal(Head(t)) * Pow10(Len(t) - 1) + PositionalValue(Tail(t))
\* The id is a decimal numeral (an optional + sign, then digits) of value >= 1.
DenotesIdAtLeastOne(s) ==
  LET digits == IF s # <<>> /\ Head(s) = "+" THEN Tail(s) ELSE s
  IN  /\ digits # <<>>
      /\ \A i \in 1..Len(digits) : digits[i] \in {"0", "1"}
      /\ PositionalValue(digits) >= 1
ShowsSnippet == \E i \in 1..Len(w.body) : w.body[i].kind = "page"

\* C6: an id that is not numeric, or is an integer below 1, gets 404 from the
\* view handler and no snippet is written; only an id that denotes an integer
\* >= 1 gets as far as being displayed.
C6_InvalidIdIs404 ==
  (InFlight /\ req.route = "snippetView") =>
    /\ (Done /\ HandlerRan /\ ~Faulted /\ ~DenotesIdAtLeastOne(req.id))
         => (w.status = 404 /\ ~ShowsSnippet)
    /\ ShowsSnippet => DenotesIdAtLeastOne(req.id)

C6_Witness ==
  /\ Done /\ req.route = "snippetView" /\ HandlerRan /\ ~Faulted
  /\ req.id = <<"1", "x">> /\ snippets = 1 /\ w.status = 404

\* ----------------------------------------------------------------------- C7
\* C7: every response, on every route and whatever its status (pages, static
\* files, the custom 404, the router's 405, login redirects, CSRF 400s, 500s
\* of store errors and of panics below the security-headers middleware),
\* carries the security headers.  The one response without them is the 500
\* of a panic raised before the security-headers middleware has set them.
C7_SecurityHeadersOnEveryResponse ==
  (Done /\ ~(flt.panic /\ trace[Len(trace)] \in {"logRequest", "secureHeaders"}))
    => SecurityHeaders \subseteq w.header

C7_Witness ==
  /\ Done /\ req.route = "notFound" /\ w.status = 404
  /\ SecurityHeaders \subseteq w.header

\* ----------------------------------------------------------------------- C8
\* C8 as stated: a request that carries the session refreshes its expiry, so
\* a session last carried by a request less than the 12-hour lifetime ago is
\* live.
C8_ExpiryRefreshedByRequests ==
  (sess.exists /\ now < lastSeen + 12) => Live

\* C8 amended: a session is created by the first response that has session
\* data to store; its expiry is set once, 12 hours after its token was issued
\* (at creation, or at the renewal a login or logout makes), and requests that
\* carry it do not refresh it; so however often it is requested it is no
\* longer live 12 hours after its token was issued, and its row is deleted on
\* expiry or replaced at logout.
C8_ExpiryFixedAtCreation ==
  /\ sess.exists =>
       /\ sess.deadline = sess.created + 12
       /\ sess.created <= lastSeen /\ lastSeen <= now
  /\ sd.loaded => sd.deadline = sd.created + 12
  /\ Live => now < sess.created + 12

C8_Witness ==
  /\ sess.exists /\ sess.created < lastSeen /\ now < lastSeen + 12
  /\ now >= sess.created + 12 /\ ~Live

\* ----------------------------------------------------------------------- C9
\* C9: a GET under /static/ for a path that names no file (a missing name, or
\* a directory asked for with its trailing slash) is answered 404, and no
\* request under /static/ is answered with a directory listing.
C9_StaticNeverListsDirectories ==
  (Done /\ req.route = "fileServer" /\ ~Faulted) =>
    /\ (req.file = "absent" \/ (req.file = "dir" /\ req.slash)) => w.status = 404
    /\ \A i \in 1..Len(w.body) : w.body[i].kind # "listing"


\* ---------------------------------------------------------------------- C10
\* render on its own: a call of render with any page name (cached or not),
\* status and template data, on a response writer nothing was written to.
RenderInit ==
  /\ now = 0
  /\ sess = NoSession
  /\ users = {}
  /\ snippets = 0
  /\ lastSeen = 0
  /\ authPhase = "anon"
  /\ phase = "render"
  /\ idx = 0
  /\ req = NoRequest
  /\ trace = <<>>
  /\ w \in {EmptyW, SetHeader(EmptyW, SecurityHeaders)}
  /\ errorLog = <<>>
  /\ ctxv = NoValue
  /\ sd = NoData
  /\ flt = NoFault
  /\ rcall \in [used : {FALSE}, page : Pages \cup {"missing.tmpl"}, status : {200, 422},
                bad : 0..PageChunks, isAuth : BOOLEAN]
  /\ pre = NoSnapshot

RenderCall ==
  /\ phase = "render"
  /\ ~rcall.used
  /\ LET o == render(Out(w, errorLog), rcall.status, rcall.page,
                     [Flash |-> FALSE, IsAuthenticated |-> rcall.isAuth, bad |-> rcall.bad])
     IN  w' = o.w /\ errorLog' = o.log
  /\ rcall' = [rcall EXCEPT !.used = TRUE]
  /\ UNCHANGED <<now, sess, users, snippets, lastSeen, authPhase, phase, idx, req,
                 trace, ctxv, sd, flt, pre>>

RenderNext == RenderCall

RenderSpec == RenderInit /\ [][RenderNext]_vars

\* C10: render is all-or-nothing.  Either the page is cached and executes,
\* and the response is the requested status with the whole page and nothing
\* is logged; or the response is 500 with only the generic status text, no
\* part of the page, and the error detail is in the error log alone.
C10_RenderAllOrNothing ==
  (rcall.used /\ phase \in {"render", "save"}) =>
    IF rcall.page \in Pages /\ rcall.bad = 0
      THEN /\ w.status = rcall.status
           /\ w.body = [i \in 1..PageChunks |-> PagePart(rcall.page, i)]
           /\ errorLog = <<>>
      ELSE /\ GenericError
           /\ Len(errorLog) = 1
           /\ \A i \in 1..Len(w.body) : w.body[i].kind # "page"

C10_Witness ==
  /\ phase = "render" /\ rcall.used /\ rcall.page = "view.tmpl" /\ rcall.status = 200
  /\ rcall.bad = PageChunks /\ GenericError

\* ---------------------------------------------------------------------- C11
\* What Context.Value may hand back under a key: nothing, a boolean, or a
\* value of another type (here a string, whose content plays no part).
ContextValues ==
  {NoValue, BoolValue(TRUE), BoolValue(FALSE), [type |-> "string", b |-> TRUE]}

\* C11: isAuthenticated fails closed.  It answers true for the boolean true
\* and for no other context value (absent, false, or not a boolean).  While a
\* request is served, the context holds a flag only once authenticate has
\* run, so a request that did not pass through the dynamic chain is not
\* authenticated; the IsAuthenticated field of the template data a handler
\* rendered equals the flag of that same request, and is true only when the
\* request arrived on a session naming a user that exists.
C11_IsAuthenticatedFailsClosed ==
  /\ \A v \in ContextValues : isAuthenticated(v) <=> (v = BoolValue(TRUE))
  /\ ctxv \in ContextValues
  /\ ctxv # NoValue => (InFlight /\ Ran("authenticate"))
  /\ ~Ran("authenticate") => ~isAuthenticated(ctxv)
  /\ rcall.used =>
       /\ rcall.isAuth = isAuthenticated(ctxv)
       /\ rcall.isAuth => (req.sessAuth /\ sd.userID \in users)

C11_Witness ==
  /\ Done /\ req.route = "home" /\ ~Faulted /\ req.sessAuth /\ ~req.afterLogout
  /\ rcall.used /\ rcall.isAuth /\ isAuthenticated(ctxv) /\ w.status = 200

=============================================================================
